---- MODULE Spec2Model ----
(***************************************************************************)
(* A model of libxid (src/src/lib.rs): the 12-byte identifier, its        *)
(* generator and its base-32 text encoding.                                *)
(*                                                                         *)
(* Number representation.  TLC's integers are 32-bit, so the wider values  *)
(* of the program are kept as big-endian tuples of 16-bit limbs:           *)
(*   u32  <<hi, lo>>              (the generator's pid, a CRC-32)          *)
(*   u64  <<l3, l2, l1, l0>>      (a number of seconds)                    *)
(* The generator's counter is a usize; it starts below 2^24 and grows by   *)
(* one per id, so within the bounds of the model it stays far below the    *)
(* width of a machine word and is kept as a natural number.                *)
(***************************************************************************)
EXTENDS Integers, Sequences, FiniteSets

VARIABLES
    gstate,      \* "none" before new_generator, then "ready" or "panicked"
    counter,     \* Generator.counter
    machine_id,  \* Generator.machine_id
    pid,         \* Generator.pid (u32)
    seed,        \* the value rand_int() gave the counter (history)
    ids,         \* the ids produced so far, oldest first (history)
    last,        \* the outcome of the last new_id_with_time call
    failed,      \* TRUE once a new_id_with_time call returned Err
    pc,          \* per caller: its position in generate
    buff,        \* per caller: the local buffer of generate
    snap,        \* per caller: the local i of generate
    arg,         \* per caller: the ts it was called with
    a, b,        \* two identifier values handed to the codec
    ea, eb       \* their encodings, <<>> until computed

vars == <<gstate, counter, machine_id, pid, seed, ids, last, failed,
          pc, buff, snap, arg, a, b, ea, eb>>

genVars == <<gstate, counter, machine_id, pid, seed>>
seqVars == <<ids, last, failed>>
concVars == <<pc, buff, snap, arg>>
codecVars == <<a, b, ea, eb>>

-----------------------------------------------------------------------------
(* Bounds of the model. *)

\* ids one generator produces in a sequential run
MaxIds == 3
\* seeds are taken within SeedSpan of either end of the 24-bit range
SeedSpan == 1
\* concurrent callers sharing one generator
NCallers == 3

-----------------------------------------------------------------------------
(* Arithmetic helpers. *)

ID_LEN == 12

Pow24 == 256 * 256 * 256

Limb == 256 * 256

RECURSIVE Pow2(_)
Pow2(n) == IF n = 0 THEN 1 ELSE 2 * Pow2(n - 1)

\* x as u8
AsU8(x) == x % 256

RECURSIVE Xor(_, _, _)
Xor(x, y, bits) ==
    IF bits = 0 THEN 0
    ELSE ((x + y) % 2) + 2 * Xor(x \div 2, y \div 2, bits - 1)

\* u32 ^ u32 on the limb representation
Xor32(x, y) == <<Xor(x[1], y[1], 16), Xor(x[2], y[2], 16)>>

\* lexicographic order of two sequences of numbers (slice / str comparison)
RECURSIVE LexLess(_, _)
LexLess(s, t) ==
    IF t = <<>> THEN FALSE
    ELSE IF s = <<>> THEN TRUE
    ELSE IF Head(s) # Head(t) THEN Head(s) < Head(t)
    ELSE LexLess(Tail(s), Tail(t))

LexLeq(s, t) == s = t \/ LexLess(s, t)

-----------------------------------------------------------------------------
(* The identifier value and its accessors. *)

\* ID::machine
Machine(v) == <<v[5], v[6], v[7]>>

\* ID::pid, a u16
Pid(v) == v[8] * 256 + v[9]

\* ID::time, as the u64 number of seconds added to UNIX_EPOCH
TimeSecs(v) == <<0, 0, v[1] * 256 + v[2], v[3] * 256 + v[4]>>

\* ID::counter, a u32; the three shifted bytes do not overlap, so | adds
Counter(v) == v[10] * (256 * 256) + v[11] * 256 + v[12]

\* Ord for ID: the order of the byte arrays
IdLess(x, y) == LexLess(x, y)

-----------------------------------------------------------------------------
(* Generator::generate. *)

\* the atomic fetch_add(1): the value it returns
FetchAddReturnPost(c) == c + 1
FetchAddReturn(c) == c

\* the atomic fetch_add(1): the value it leaves in the counter
FetchAddStoreLost(c) == c
FetchAddStoreTwice(c) == c + 2
FetchAddStore(c) == c + 1

\* the buffer up to the counter field: ts as u32 big-endian, machine id, pid
WriteHeaderPidSwapped(ts, mid, p) ==
    << ts[3] \div 256, ts[3] % 256, ts[4] \div 256, ts[4] % 256,
       mid[1], mid[2], mid[3],
       AsU8(p[2]), AsU8(p[2] \div 256),
       0, 0, 0 >>
WriteHeader(ts, mid, p) ==
    << ts[3] \div 256, ts[3] % 256, ts[4] \div 256, ts[4] % 256,
       mid[1], mid[2], mid[3],
       AsU8(p[2] \div 256), AsU8(p[2]),
       0, 0, 0 >>

\* the counter field: the three low bytes of i, big-endian
WriteCounter(bf, i) ==
    [bf EXCEPT ![10] = AsU8(i \div (256 * 256)),
               ![11] = AsU8(i \div 256),
               ![12] = AsU8(i)]

-----------------------------------------------------------------------------
(* The environment new_generator reads. *)

ProductUuid == "4c4c4544-0042-3510-8052-b4c04f4e3632\n"
HostName == "web-01"
CpusetContainer == "/docker/0f3a\n"

\* platform_machine_id: opening or reading the file fails, or its contents
PlatformOutcomes ==
    { [ok |-> FALSE, s |-> ""], [ok |-> TRUE, s |-> ""],
      [ok |-> TRUE, s |-> ProductUuid] }

\* gethostname(): an OsString that is or is not valid UTF-8
HostOutcomes ==
    { [utf8 |-> TRUE, s |-> ""], [utf8 |-> TRUE, s |-> HostName],
      [utf8 |-> FALSE, s |-> ""] }

\* fs::read("/proc/self/cpuset")
CpusetOutcomes == { [ok |-> FALSE, s |-> ""], [ok |-> TRUE, s |-> CpusetContainer] }

\* process::id(): 1 and 70001
OsPids == { <<0, 1>>, <<1, 4465>> }

\* thread_rng().fill_bytes on three bytes
RandomBytes == { <<0, 0, 0>>, <<171, 205, 239>> }

\* the first three bytes of md5::compute(s), for the strings of the model
Md5Prefix(s) ==
    CASE s = ProductUuid -> <<112, 35, 53>>
      [] s = HostName -> <<158, 121, 94>>

\* crc32fast of the cpuset contents of the model (0x87906d97)
Crc32(s) == CASE s = CpusetContainer -> <<34704, 28055>>

\* rand_int: three random bytes as a 24-bit number
Seeds == (0 .. SeedSpan) \cup ((Pow24 - 1 - SeedSpan) .. (Pow24 - 1))

\* get_pid
GetPid(ospid, cpuset) ==
    IF ~cpuset.ok THEN ospid ELSE Xor32(ospid, Crc32(cpuset.s))

\* hostname_string: into_string().unwrap() panics on a name that is not UTF-8
HostnameString(h) ==
    IF h.utf8 THEN [panic |-> FALSE, s |-> h.s] ELSE [panic |-> TRUE, s |-> ""]

\* read_machine_id
ReadMachineId(pm, h, rnd) ==
    LET useHost == ~pm.ok \/ ~(Len(pm.s) > 0)
        hs == HostnameString(h)
        id == IF useHost THEN hs.s ELSE pm.s
    IN  IF useHost /\ hs.panic THEN [panic |-> TRUE, val |-> <<>>]
        ELSE IF Len(id) <= 0 THEN [panic |-> FALSE, val |-> rnd]
        ELSE [panic |-> FALSE, val |-> Md5Prefix(id)]

-----------------------------------------------------------------------------
(* Points in time (SystemTime), relative to UNIX_EPOCH. *)

Epoch == [early |-> FALSE, secs |-> <<0, 0, 0, 0>>, nanos |-> 0]

\* early: before the epoch by secs + nanos; otherwise after it by as much
Times ==
    { [early |-> TRUE, secs |-> <<0, 0, 0, 1>>, nanos |-> 0],
      [early |-> TRUE, secs |-> <<0, 0, 0, 0>>, nanos |-> 500000000],
      Epoch,
      [early |-> FALSE, secs |-> <<0, 0, 0, 1>>, nanos |-> 999999999],
      [early |-> FALSE, secs |-> <<0, 0, Limb - 1, Limb - 1>>, nanos |-> 0],
      [early |-> FALSE, secs |-> <<0, 1, 0, 0>>, nanos |-> 0] }

\* t.duration_since(UNIX_EPOCH): Err when t is earlier, else the distance,
\* of which as_secs() keeps the whole seconds
DurationSinceEpochSwapped(t) ==
    [ok |-> t.early \/ t = Epoch, secs |-> t.secs]
DurationSinceEpoch(t) == [ok |-> ~t.early, secs |-> t.secs]

\* the order of two u64 numbers of seconds
SecsLeq(x, y) == LexLeq(x, y)

-----------------------------------------------------------------------------
(* The sequential life of one generator: new_generator, then calls of     *)
(* new_id_with_time (new_id is the same call with t read from the clock). *)

NoCall == [kind |-> "none", t |-> Epoch]

Callers == 1 .. NCallers

ZeroBuff == [k \in 1 .. ID_LEN |-> 0]

IdleConc ==
    /\ pc = [c \in Callers |-> "idle"]
    /\ buff = [c \in Callers |-> ZeroBuff]
    /\ snap = [c \in Callers |-> 0]
    /\ arg = [c \in Callers |-> Epoch.secs]

IdleCodec == a = ZeroBuff /\ b = ZeroBuff /\ ea = <<>> /\ eb = <<>>

Init ==
    /\ gstate = "none"
    /\ counter = 0
    /\ machine_id = <<0, 0, 0>>
    /\ pid = <<0, 0>>
    /\ seed = 0
    /\ ids = <<>>
    /\ last = NoCall
    /\ failed = FALSE
    /\ IdleConc
    /\ IdleCodec

\* new_generator: the fields are evaluated in the order written
NewGenerator ==
    /\ gstate = "none"
    /\ \E s \in Seeds, pm \in PlatformOutcomes, h \in HostOutcomes,
          rnd \in RandomBytes, ospid \in OsPids, cs \in CpusetOutcomes :
          LET m == ReadMachineId(pm, h, rnd) IN
          IF m.panic
          THEN /\ gstate' = "panicked"
               /\ UNCHANGED <<counter, machine_id, pid, seed>>
          ELSE /\ gstate' = "ready"
               /\ counter' = s
               /\ seed' = s
               /\ machine_id' = m.val
               /\ pid' = GetPid(ospid, cs)
    /\ UNCHANGED <<seqVars, concVars, codecVars>>

\* new_id_with_time(t), generate included
NewIdWithTime ==
    /\ gstate = "ready"
    /\ Len(ids) < MaxIds
    /\ \E t \in Times :
          LET d == DurationSinceEpoch(t) IN
          IF d.ok
          THEN LET i == FetchAddReturn(counter)
                   v == WriteCounter(WriteHeader(d.secs, machine_id, pid), i)
               IN  /\ counter' = FetchAddStore(counter)
                   /\ ids' = Append(ids, [val |-> v, ts |-> d.secs, i |-> i])
                   /\ last' = [kind |-> "ok", t |-> t]
                   /\ UNCHANGED failed
          ELSE /\ last' = [kind |-> "err", t |-> t]
               /\ failed' = TRUE
               /\ UNCHANGED <<counter, ids>>
    /\ UNCHANGED <<gstate, machine_id, pid, seed, concVars, codecVars>>

Next == NewGenerator \/ NewIdWithTime

Spec == Init /\ [][Next]_vars

-----------------------------------------------------------------------------
(* Callers sharing one generator: each runs generate once.  The atomic     *)
(* fetch_add is the only step that touches shared state.                    *)

\* the timestamps the concurrent callers pass
CallSecs == { <<0, 0, 0, 1>>, <<0, 0, 0, 2>> }

ConcInit ==
    /\ gstate = "ready"
    /\ seed \in Seeds
    /\ counter = seed
    /\ machine_id = Md5Prefix(ProductUuid)
    /\ pid \in { GetPid(<<0, 1>>, cs) : cs \in CpusetOutcomes }
    /\ ids = <<>>
    /\ last = NoCall
    /\ failed = FALSE
    /\ IdleConc
    /\ IdleCodec

\* generate, up to the counter: the buffer, the timestamp, machine id and pid
Call(c) ==
    /\ pc[c] = "idle"
    /\ \E ts \in CallSecs :
          /\ arg' = [arg EXCEPT ![c] = ts]
          /\ buff' = [buff EXCEPT ![c] = WriteHeader(ts, machine_id, pid)]
    /\ pc' = [pc EXCEPT ![c] = "header"]
    /\ UNCHANGED <<genVars, seqVars, snap, codecVars>>

\* let i = self.counter.fetch_add(1, Ordering::SeqCst)
FetchAdd(c) ==
    /\ pc[c] = "header"
    /\ snap' = [snap EXCEPT ![c] = FetchAddReturn(counter)]
    /\ counter' = FetchAddStore(counter)
    /\ pc' = [pc EXCEPT ![c] = "fetched"]
    /\ UNCHANGED <<gstate, machine_id, pid, seed, seqVars, buff, arg, codecVars>>

\* the counter bytes, and the ID returned
Return(c) ==
    /\ pc[c] = "fetched"
    /\ buff' = [buff EXCEPT ![c] = WriteCounter(buff[c], snap[c])]
    /\ pc' = [pc EXCEPT ![c] = "done"]
    /\ UNCHANGED <<genVars, seqVars, snap, arg, codecVars>>

ConcNext == \E c \in Callers : Call(c) \/ FetchAdd(c) \/ Return(c)

SpecConc == ConcInit /\ [][ConcNext]_vars

-----------------------------------------------------------------------------
(* ID::encode: data_encoding's base-32 over the symbols of ID::encoding,   *)
(* most significant bit first, without padding.                            *)

\* the standard base-32 alphabet, A-Z then 2-7
symbolsRfc4648 ==
    [k \in 1 .. 32 |-> IF k <= 26 THEN 64 + k ELSE 23 + k]
\* spec.symbols, "0123456789abcdefghijklmnopqrstuv", as character codes
symbols ==
    [k \in 1 .. 32 |-> IF k <= 10 THEN 47 + k ELSE 86 + k]

\* the padding character '='
paddingEq == <<61>>
\* spec.padding, which Specification::new() leaves unset
padding == <<>>

\* bit j of the input, counted from the most significant bit of byte 1;
\* the bits after the input are 0
Bit(val, j) ==
    IF j >= 8 * Len(val) THEN 0
    ELSE (val[(j \div 8) + 1] \div Pow2(7 - (j % 8))) % 2

\* the value of the k-th group of five bits
Digit(val, k) ==
    LET j == 5 * (k - 1)
    IN  16 * Bit(val, j) + 8 * Bit(val, j + 1) + 4 * Bit(val, j + 2)
        + 2 * Bit(val, j + 3) + Bit(val, j + 4)

Encode(val) ==
    LET m == (8 * Len(val) + 4) \div 5
        body == [k \in 1 .. m |-> symbols[1 + Digit(val, k)]]
    IN  IF padding = <<>> THEN body
        ELSE body \o [k \in 1 .. ((8 - (m % 8)) % 8) |-> padding[1]]

\* the identifier values handed to the codec: all bytes 0 or all bytes 255,
\* but for one byte
SampleBytes == {0, 1, 7, 8, 16, 132, 255}

SampleIds ==
    { [k \in 1 .. ID_LEN |-> IF k = p THEN v ELSE fill] :
        p \in 1 .. ID_LEN, v \in SampleBytes, fill \in {0, 255} }

CodecInit ==
    /\ gstate = "none"
    /\ counter = 0
    /\ machine_id = <<0, 0, 0>>
    /\ pid = <<0, 0>>
    /\ seed = 0
    /\ ids = <<>>
    /\ last = NoCall
    /\ failed = FALSE
    /\ IdleConc
    /\ a \in SampleIds
    /\ b \in SampleIds
    /\ ea = <<>>
    /\ eb = <<>>

EncodeA ==
    /\ ea = <<>>
    /\ ea' = Encode(a)
    /\ UNCHANGED <<genVars, seqVars, concVars, a, b, eb>>

EncodeB ==
    /\ eb = <<>>
    /\ eb' = Encode(b)
    /\ UNCHANGED <<genVars, seqVars, concVars, a, b, ea>>

CodecNext == EncodeA \/ EncodeB

SpecCodec == CodecInit /\ [][CodecNext]_vars

-----------------------------------------------------------------------------
(* Properties. *)

\* the number of seconds fits the 32-bit timestamp field
FitsU32(ts) == ts[1] = 0 /\ ts[2] = 0

\* C1: two ids produced one after the other by one generator, the second
\* with a timestamp not below the first's, are in strictly increasing byte
\* order, also when the counter field passes 0xFFFFFF.  Stated for the
\* timestamps that fit the 32-bit field, so that the order is not lost to
\* the truncation of the timestamp itself.
C1_Monotonic ==
    \A k \in 1 .. Len(ids) - 1 :
        /\ FitsU32(ids[k].ts) /\ FitsU32(ids[k + 1].ts)
        /\ SecsLeq(ids[k].ts, ids[k + 1].ts)
        => IdLess(ids[k].val, ids[k + 1].val)

\* the callers that have their counter value, and those that have returned
Fetched == { c \in Callers : pc[c] \in {"fetched", "done"} }
Returned == { c \in Callers : pc[c] = "done" }

\* C2: under every interleaving, no two callers of one shared generator get
\* the same raw counter value, the ids returned and their counter() values
\* are pairwise distinct, and no increment is lost: the counter is the seed
\* plus the number of callers that have incremented it.
C2_ConcurrentDistinct ==
    /\ \A c, d \in Fetched : c # d => snap[c] # snap[d]
    /\ \A c, d \in Returned :
          c # d => buff[c] # buff[d] /\ Counter(buff[c]) # Counter(buff[d])
    /\ counter = seed + Cardinality(Fetched)

\* C2 witness: every caller has returned, and the counter field wrapped
\* between two of them.
C2_AllReturned ==
    /\ Returned = Callers
    /\ \E c, d \in Callers : Counter(buff[c]) = Pow24 - 1 /\ Counter(buff[d]) = 0

C4_FieldsReadBack ==
    \A k \in 1 .. Len(ids) :
        /\ TimeSecs(ids[k].val) = <<0, 0, ids[k].ts[3], ids[k].ts[4]>>
        /\ Machine(ids[k].val) = machine_id
        /\ Pid(ids[k].val) = pid[2]
        /\ Counter(ids[k].val) = ids[k].i % Pow24

\* C4 witness: a later id of a generator whose pid exceeds 16 bits, made
\* with a timestamp beyond 32 bits and a counter value beyond 24 bits.
C4_Truncating ==
    \E k \in 2 .. Len(ids) :
        /\ ids[k].ts[2] # 0
        /\ pid[1] # 0
        /\ ids[k].i >= Pow24

\* both encodings have been computed
Encoded == ea # <<>> /\ eb # <<>>

\* C5: a < b in byte order iff encode(a) < encode(b) as strings, and
\* a = b iff encode(a) = encode(b).
C5_OrderPreserved ==
    Encoded =>
        /\ IdLess(a, b) <=> LexLess(ea, eb)
        /\ a = b <=> ea = eb

\* C5 witness: two encoded ids that agree on the first byte and differ in
\* the last one.
C5_LaterByteDecides ==
    Encoded /\ IdLess(a, b) /\ a[1] = b[1] /\ a[11] = b[11] /\ a[12] # b[12]

\* the characters 0-9 and a-v
Alphabet == (48 .. 57) \cup (97 .. 118)

\* C6: encode() returns exactly 20 characters, each from 0-9 a-v.
C6_LengthAndAlphabet ==
    \A e \in {ea, eb} \ {<<>>} :
        Len(e) = 20 /\ \A k \in 1 .. Len(e) : e[k] \in Alphabet

\* C6 witness: an encoding whose last group of bits is not zero.
C6_LastGroupUsed == ea # <<>> /\ a[ID_LEN] % 2 = 1 /\ ea[Len(ea)] # 48

\* C7: a call returns Err exactly when t is before the epoch, in every
\* state of the generator; a failed call leaves the generator usable.
C7_ErrIffBeforeEpoch ==
    /\ last.kind # "none" => (last.kind = "err" <=> last.t.early)
    /\ failed => gstate = "ready"

\* C7 witness: a call that succeeded after an earlier call failed.
C7_OkAfterErr == failed /\ last.kind = "ok" /\ Len(ids) >= 1

\* C8: new_generator completes under every outcome of the environment.
C8_NeverFails == gstate # "panicked"

\* C10 as stated: the first id carries the counter after the increment.
C10_PostIncrement ==
    Len(ids) >= 1 => Counter(ids[1].val) = (seed + 1) % Pow24

\* C10, amended: the counter field is the low 24 bits of the counter's
\* value before the increment; the first id of a generator seeded with s has
\* counter() = s.
C10_PreIncrement ==
    \A k \in 1 .. Len(ids) :
        /\ ids[k].i = seed + k - 1
        /\ Counter(ids[k].val) = (seed + k - 1) % Pow24

\* C10 witness: the first id of a generator seeded with 0xFFFFFF.
C10_FirstIdOfTopSeed == Len(ids) >= 1 /\ seed = Pow24 - 1

====
